---- MODULE Spec2Model ----
(***************************************************************************)
(* The content-repository facade of src/backends/backend.js: the Auth     *)
(* Store, the slug formatter, the Backend facade and the backend resolver *)
(* with its lazy singleton.                                                *)
(*                                                                         *)
(* Strings are sequences of one-character strings; objects are records    *)
(* with a kind field, null and undefined among them.                      *)
(***************************************************************************)
EXTENDS Integers, Sequences, FiniteSets, TLC

VARIABLES
    template,       \* slugFormatter: the template argument
    entryData,      \* slugFormatter: the field data (an Immutable.Map)
    date,           \* the value of new Date()
    formatted,      \* slugFormatter: what the call gave
    backend,        \* currentBackend's closure variable
    constructed,    \* number of Backend objects constructed so far
    localStorage,   \* window.localStorage under the key 'nf-cms-user'
    user,           \* the singleton's this.user
    implUser,       \* what implementation.setUser was last given
    retrieveCalls,  \* number of authStore.retrieve() calls
    setUserCalls,   \* number of implementation.setUser() calls
    authCalls,      \* number of implementation.authenticate invocations
    pendingAuth,    \* implementation.authenticate promises not yet settled
    outstanding,    \* implementation.persistEntry promises not yet settled
    persistCalls,   \* number of implementation.persistEntry invocations
    settled,        \* ids of the settled persist promises, in order
    lastResult      \* what the latest call (or settled promise) gave its caller

vars == << template, entryData, date, formatted, backend, constructed,
           localStorage, user, implUser, retrieveCalls, setUserCalls,
           authCalls, pendingAuth, outstanding, persistCalls, settled, lastResult >>

slugVars == << template, entryData, formatted >>
sessionVars == << backend, constructed, localStorage, user, implUser,
                  retrieveCalls, setUserCalls, authCalls, pendingAuth >>
contentVars == << outstanding, persistCalls, settled >>

\* undefined where a string is expected: no string holds this element
Undefined == << "undefined" >>

----------------------------------------------------------------------------
\* Bounds of the model.

\* longest title or path field drawn for the slug formatter
MaxLen == 3
\* most items a backend listing answers with
MaxItems == 2
\* most persistEntry calls issued in one run
MaxPersist == 2
\* most currentUser calls in one run
MaxRetrieve == 2
\* most authenticate calls in one run
MaxAuth == 2
\* most Backend objects a run constructs through direct resolveBackend calls
MaxResolve == 1

----------------------------------------------------------------------------
\* Characters and strings.

LowerSeq == << "a", "b", "c", "d", "e", "f", "g", "h", "i", "j", "k", "l", "m",
               "n", "o", "p", "q", "r", "s", "t", "u", "v", "w", "x", "y", "z" >>
UpperSeq == << "A", "B", "C", "D", "E", "F", "G", "H", "I", "J", "K", "L", "M",
               "N", "O", "P", "Q", "R", "S", "T", "U", "V", "W", "X", "Y", "Z" >>
DigitSeq == << "0", "1", "2", "3", "4", "5", "6", "7", "8", "9" >>

Range(s) == { s[i] : i \in DOMAIN s }

WhiteSpace == { " ", "\t", "\n" }

\* String.prototype.toLowerCase, one character
LowerChar(c) ==
    IF c \in Range(UpperSeq)
    THEN LowerSeq[CHOOSE i \in DOMAIN UpperSeq : UpperSeq[i] = c]
    ELSE c

toLowerCase(s) == [ i \in DOMAIN s |-> LowerChar(s[i]) ]

\* String.prototype.trim: white space off both ends
trim(s) ==
    LET inked == { i \in DOMAIN s : s[i] \notin WhiteSpace }
    IN  IF inked = {} THEN << >>
        ELSE LET lo == CHOOSE i \in inked : \A j \in inked : i <= j
                 hi == CHOOSE i \in inked : \A j \in inked : j <= i
             IN  SubSeq(s, lo, hi)

\* Number to string, decimal
RECURSIVE NumToStr(_)
NumToStr(n) ==
    IF n < 10 THEN << DigitSeq[n + 1] >>
    ELSE NumToStr(n \div 10) \o << DigitSeq[(n % 10) + 1] >>

\* s.slice(-2)
SliceLast2(s) == IF Len(s) <= 2 THEN s ELSE SubSeq(s, Len(s) - 1, Len(s))

\* Immutable.Map get(key, notSetValue)
MapGet(m, k, notSet) == IF k \in DOMAIN m THEN m[k] ELSE notSet

\* the empty Immutable.Map
EmptyMap == [ k \in {} |-> << >> ]

----------------------------------------------------------------------------
\* slugFormatter.

\* the characters the class [a-z0-9\.\-\_] names
SlugSafe == Range(LowerSeq) \cup Range(DigitSeq) \cup { ".", "-", "_" }

\* [^a-z0-9\.\-\_] under the i flag: a character matches the negated class
\* when no case variant of it is in the class
UnsafeChar(c) == LowerChar(c) \notin SlugSafe

\* one more than the end of the longest run of UnsafeChar from position i
RECURSIVE RunEnd(_, _)
RunEnd(s, i) ==
    IF i <= Len(s) /\ UnsafeChar(s[i]) THEN RunEnd(s, i + 1) ELSE i

\* the replace without the regex's + : a hyphen for every unsafe character
RECURSIVE ReplaceEachUnsafe(_, _)
ReplaceEachUnsafe(s, i) ==
    IF i > Len(s) THEN << >>
    ELSE IF UnsafeChar(s[i]) THEN << "-" >> \o ReplaceEachUnsafe(s, i + 1)
    ELSE << s[i] >> \o ReplaceEachUnsafe(s, i + 1)

\* s.replace(/[^a-z0-9\.\-\_]+/gi, '-') from position i on
RECURSIVE ReplaceUnsafeRuns(_, _)
ReplaceUnsafeRuns(s, i) ==
    IF i > Len(s) THEN << >>
    ELSE IF UnsafeChar(s[i])
         THEN << "-" >> \o ReplaceUnsafeRuns(s, RunEnd(s, i))
         ELSE << s[i] >> \o ReplaceUnsafeRuns(s, i + 1)

\* the same with the regex's + dropped
SanitizeEachChar(identifier) == ReplaceEachUnsafe(toLowerCase(trim(identifier)), 1)

\* identifier.trim().toLowerCase().replace(...)
Sanitize(identifier) == ReplaceUnsafeRuns(toLowerCase(trim(identifier)), 1)

STitle == << "t", "i", "t", "l", "e" >>
SPath == << "p", "a", "t", "h" >>
SSlug == << "s", "l", "u", "g" >>
SYear == << "y", "e", "a", "r" >>
SMonth == << "m", "o", "n", "t", "h" >>
SDay == << "d", "a", "y" >>
SUndefined == << "u", "n", "d", "e", "f", "i", "n", "e", "d" >>

\* entryData.get('title', entryData.get('path'))
Identifier(data) == MapGet(data, STitle, MapGet(data, SPath, Undefined))

\* one more than the end of the longest run of characters other than } from i
RECURSIVE NameEnd(_, _)
NameEnd(t, i) ==
    IF i <= Len(t) /\ t[i] # "}" THEN NameEnd(t, i + 1) ELSE i

\* where a match of /\{\{([^\}]+)\}\}/ that starts at i ends, 0 when none does
MatchEnd(t, i) ==
    IF i + 1 <= Len(t) /\ t[i] = "{" /\ t[i + 1] = "{"
    THEN LET k == NameEnd(t, i + 2)
         IN  IF k > i + 2 /\ k + 1 <= Len(t) /\ t[k] = "}" /\ t[k + 1] = "}"
             THEN k + 1
             ELSE 0
    ELSE 0

\* the callback of template.replace: what the placeholder `name` expands to
Replacer(name, data, d) ==
    IF name = SYear THEN [ threw |-> FALSE, value |-> NumToStr(d.year) ]
    ELSE IF name = SMonth
    THEN [ threw |-> FALSE, value |-> SliceLast2(<< "0" >> \o NumToStr(d.month + 1)) ]
    ELSE IF name = SDay
    THEN [ threw |-> FALSE, value |-> SliceLast2(<< "0" >> \o NumToStr(d.day)) ]
    ELSE IF name = SSlug
    THEN IF Identifier(data) = Undefined
         THEN [ threw |-> TRUE, value |-> << >> ]
         ELSE [ threw |-> FALSE, value |-> Sanitize(Identifier(data)) ]
    ELSE IF MapGet(data, name, Undefined) = Undefined
    THEN [ threw |-> FALSE, value |-> SUndefined ]
    ELSE [ threw |-> FALSE, value |-> MapGet(data, name, Undefined) ]

\* the matches of the global regex from position i on, left to right:
\* each with the placeholder's name and what the callback gave for it
RECURSIVE Expansions(_, _, _, _)
Expansions(t, i, data, d) ==
    IF i > Len(t) THEN << >>
    ELSE IF MatchEnd(t, i) # 0
    THEN LET name == SubSeq(t, i + 2, MatchEnd(t, i) - 2)
         IN  << [ name |-> name, from |-> i, to |-> MatchEnd(t, i),
                  out |-> Replacer(name, data, d) ] >>
             \o Expansions(t, MatchEnd(t, i) + 1, data, d)
    ELSE Expansions(t, i + 1, data, d)

\* the template from position i on with the n-th and later matches replaced
RECURSIVE Assemble(_, _, _, _)
Assemble(t, i, ms, n) ==
    IF i > Len(t) THEN << >>
    ELSE IF n <= Len(ms) /\ ms[n].from = i
    THEN ms[n].out.value \o Assemble(t, ms[n].to + 1, ms, n + 1)
    ELSE << t[i] >> \o Assemble(t, i + 1, ms, n)

slugFormatter(t, data, d) ==
    LET ms == Expansions(t, 1, data, d)
    IN  IF \E n \in DOMAIN ms : ms[n].out.threw
        THEN [ threw |-> TRUE, error |-> "TypeError", value |-> << >>,
               expansions |-> << >> ]
        ELSE [ threw |-> FALSE, error |-> "", value |-> Assemble(t, 1, ms, 1),
               expansions |-> ms ]

----------------------------------------------------------------------------
\* Inputs of the slug formatter.

TitleChars == { "a", "B", " ", "!", "-", "." }

RECURSIVE StringsUpTo(_, _)
StringsUpTo(chars, n) ==
    IF n = 0 THEN { << >> }
    ELSE LET shorter == StringsUpTo(chars, n - 1)
         IN  shorter \cup { Append(s, c) : s \in shorter, c \in chars }

Titles == StringsUpTo(TitleChars, MaxLen)

\* a path field some drafts carry
PathField == << "p", "/", "Q", " ", "x" >>

\* the field data: a title or none, a path or none
FieldData ==
    { EmptyMap, SPath :> PathField }
    \cup { STitle :> t : t \in Titles }
    \cup { (STitle :> t) @@ (SPath :> PathField) : t \in Titles }

TSlug == << "{", "{", "s", "l", "u", "g", "}", "}" >>
TDated == << "{", "{", "y", "e", "a", "r", "}", "}", "-",
             "{", "{", "m", "o", "n", "t", "h", "}", "}", "-",
             "{", "{", "d", "a", "y", "}", "}", "-",
             "{", "{", "s", "l", "u", "g", "}", "}" >>
TField == << "{", "{", "t", "i", "t", "l", "e", "}", "}", ".",
             "{", "{", "s", "l", "u", "g", "}", "}" >>
TBraces == << "{", "{", "{", "s", "l", "u", "g", "}", "}", "}" >>
TPlain == << "{", "s", "l", "u", "g", "}", "-", "x" >>

Templates == { TSlug, TDated, TField, TBraces, TPlain }

\* getMonth() counts from 0
Dates == { [ year |-> 2024, month |-> 2, day |-> 5 ],
           [ year |-> 2016, month |-> 11, day |-> 31 ] }

Today == [ year |-> 2024, month |-> 2, day |-> 5 ]

NotCalled == [ threw |-> FALSE, error |-> "not called", value |-> << >>,
               expansions |-> << >> ]

----------------------------------------------------------------------------
\* Objects.

JsNull == [ kind |-> "null" ]
JsUndefined == [ kind |-> "undefined" ]
NoArgs == [ kind |-> "none" ]
JsError(message) == [ kind |-> "Error", message |-> message ]
NoResult ==
    [ op |-> "none", args |-> NoArgs, outcome |-> "none", value |-> JsUndefined ]

IdleSession ==
    /\ backend = JsNull
    /\ constructed = 0
    /\ localStorage = JsNull
    /\ user = JsUndefined
    /\ implUser = JsUndefined
    /\ retrieveCalls = 0
    /\ setUserCalls = 0
    /\ authCalls = 0
    /\ pendingAuth = {}

IdleContent ==
    /\ outstanding = {}
    /\ persistCalls = 0
    /\ settled = << >>

----------------------------------------------------------------------------
\* The slug formatter on its own.

InitSlug ==
    /\ template \in Templates
    /\ entryData \in FieldData
    /\ date \in Dates
    /\ formatted = NotCalled
    /\ lastResult = NoResult
    /\ IdleSession
    /\ IdleContent

Format ==
    /\ formatted = NotCalled
    /\ formatted' = slugFormatter(template, entryData, date)
    /\ UNCHANGED << template, entryData, date, lastResult, sessionVars, contentVars >>

NextSlug == Format

SpecSlug == InitSlug /\ [][NextSlug]_vars

\* what the claim says of the slug: the title, the path when there is no
\* title, lower-cased and trimmed, the first character of every maximal run
\* of characters outside [a-z0-9._-] turned into a hyphen and the rest of the
\* run dropped
ClaimedSlug(data) ==
    LET id == IF STitle \in DOMAIN data THEN data[STitle] ELSE data[SPath]
        s == toLowerCase(trim(id))
        Kept(i) == s[i] \in SlugSafe \/ i = 1 \/ s[i - 1] \in SlugSafe
        idx == SelectSeq([ i \in 1 .. Len(s) |-> i ], Kept)
    IN  [ j \in 1 .. Len(idx) |->
            IF s[idx[j]] \in SlugSafe THEN s[idx[j]] ELSE "-" ]

HasIdentifier(data) == STitle \in DOMAIN data \/ SPath \in DOMAIN data

----------------------------------------------------------------------------
\* LocalStorageAuthStore.

\* a session object: its keys and values in the order JSON.stringify walks them
Sessions ==
    { << << "token", "t1" >>, << "login", "ann" >> >>,
      << << "token", "t2" >> >> }

SessionObject(pairs) == [ kind |-> "object", pairs |-> pairs ]

\* JSON.stringify of an object of strings, from the n-th key on
RECURSIVE StringifyMembers(_, _)
StringifyMembers(pairs, n) ==
    IF n > Len(pairs) THEN << >>
    ELSE (IF n > 1 THEN << "," >> ELSE << >>)
         \o << "\"", pairs[n][1], "\"", ":", "\"", pairs[n][2], "\"" >>
         \o StringifyMembers(pairs, n + 1)

JSONstringify(obj) == << "{" >> \o StringifyMembers(obj.pairs, 1) \o << "}" >>

\* JSON.parse of such a text: the members from position i on
RECURSIVE ParseMembers(_, _)
ParseMembers(text, i) ==
    IF i + 6 > Len(text) THEN << >>
    ELSE << << text[i + 1], text[i + 5] >> >>
         \o ParseMembers(text, i + 8)

JSONparse(text) == SessionObject(ParseMembers(text, 2))

\* retrieve(): data && JSON.parse(data)
retrieve(storage) ==
    IF storage = JsNull THEN JsNull ELSE JSONparse(storage.text)

\* store(userData): setItem(storageKey, JSON.stringify(userData))
store(userData) == [ kind |-> "item", text |-> JSONstringify(userData) ]

Truthy(v) == v # JsNull /\ v # JsUndefined

----------------------------------------------------------------------------
\* resolveBackend and currentBackend.

NoName == "(undefined)"
KnownNames == { "test-repo", "github", "netlify-git" }

\* a configuration: with no backend key, or with one that has a name or none
NoBackendKey == [ hasBackend |-> FALSE, name |-> NoName ]
Configs ==
    { NoBackendKey }
    \cup { [ hasBackend |-> TRUE, name |-> n ] :
             n \in KnownNames \cup { "gitlab", "", NoName } }

Implementation(name) ==
    CASE name = "test-repo" -> "TestRepoBackend"
      [] name = "github" -> "GitHubBackend"
      [] name = "netlify-git" -> "NetlifyGitBackend"

\* new Backend(implementation, authStore)
Facade(id, implementation) ==
    [ kind |-> "Backend", id |-> id, implementation |-> implementation,
      authStore |-> "LocalStorageAuthStore" ]

Returned(op, args, value) ==
    [ op |-> op, args |-> args, outcome |-> "returned", value |-> value ]
Threw(op, args, message) ==
    [ op |-> op, args |-> args, outcome |-> "threw", value |-> JsError(message) ]

\* resolveBackend accepting every name: the switch's default constructs too
resolveBackendAnyName(config, id) ==
    IF config.name = NoName
    THEN Threw("resolveBackend", config, "No backend defined in configuration")
    ELSE Returned("resolveBackend", config,
                  Facade(id, IF config.name \in KnownNames
                             THEN Implementation(config.name)
                             ELSE "TestRepoBackend"))

\* resolveBackend(config); id names the Backend object it would construct
resolveBackend(config, id) ==
    IF config.name = NoName
    THEN Threw("resolveBackend", config, "No backend defined in configuration")
    ELSE IF config.name \in KnownNames
    THEN Returned("resolveBackend", config,
                  Facade(id, Implementation(config.name)))
    ELSE Threw("resolveBackend", config, "Backend not found")

\* a direct call of the exported resolveBackend
ResolveBackend(config) ==
    /\ constructed < MaxResolve
    /\ lastResult' = resolveBackend(config, constructed + 1)
    /\ constructed' = IF lastResult'.outcome = "returned"
                      THEN constructed + 1 ELSE constructed
    /\ UNCHANGED << backend, localStorage, user, implUser, retrieveCalls,
                    setUserCalls, authCalls, pendingAuth >>
    /\ UNCHANGED << slugVars, date, contentVars >>

\* currentBackend without the look at the cached instance
CurrentBackendUncached(config) ==
    /\ IF config.hasBackend
       THEN LET r == resolveBackend(config, constructed + 1)
            IN  /\ lastResult' = [ r EXCEPT !.op = "currentBackend" ]
                /\ backend' = IF r.outcome = "returned" THEN r.value ELSE backend
                /\ constructed' = IF r.outcome = "returned"
                                  THEN constructed + 1 ELSE constructed
       ELSE /\ lastResult' = Returned("currentBackend", config, JsUndefined)
            /\ UNCHANGED << backend, constructed >>
    /\ UNCHANGED << localStorage, user, implUser, retrieveCalls,
                    setUserCalls, authCalls, pendingAuth >>
    /\ UNCHANGED << slugVars, date, contentVars >>

\* currentBackend(config)
CurrentBackend(config) ==
    /\ IF backend # JsNull
       THEN /\ lastResult' = Returned("currentBackend", config, backend)
            /\ UNCHANGED << backend, constructed >>
       ELSE IF config.hasBackend
       THEN LET r == resolveBackend(config, constructed + 1)
            IN  /\ lastResult' = [ r EXCEPT !.op = "currentBackend" ]
                /\ backend' = IF r.outcome = "returned" THEN r.value ELSE backend
                /\ constructed' = IF r.outcome = "returned"
                                  THEN constructed + 1 ELSE constructed
       ELSE /\ lastResult' = Returned("currentBackend", config, JsUndefined)
            /\ UNCHANGED << backend, constructed >>
    /\ UNCHANGED << localStorage, user, implUser, retrieveCalls,
                    setUserCalls, authCalls, pendingAuth >>
    /\ UNCHANGED << slugVars, date, contentVars >>

----------------------------------------------------------------------------
\* Backend: the session.

\* currentUser() on the singleton
CurrentUser ==
    /\ backend # JsNull
    /\ retrieveCalls < MaxRetrieve
    /\ IF Truthy(user)
       THEN /\ lastResult' = Returned("currentUser", NoArgs, user)
            /\ UNCHANGED << implUser, retrieveCalls, setUserCalls >>
       ELSE LET stored == retrieve(localStorage)
            IN  /\ retrieveCalls' = retrieveCalls + 1
                /\ IF Truthy(stored)
                   THEN /\ implUser' = stored
                        /\ setUserCalls' = setUserCalls + 1
                        /\ lastResult' = Returned("currentUser", NoArgs, stored)
                   ELSE /\ lastResult' = Returned("currentUser", NoArgs, JsUndefined)
                        /\ UNCHANGED << implUser, setUserCalls >>
    /\ UNCHANGED << backend, constructed, localStorage, user, authCalls,
                    pendingAuth >>
    /\ UNCHANGED << slugVars, date, contentVars >>

Credentials == { "alice:right", "alice:wrong" }

\* authenticate(credentials): the call goes to the implementation
Authenticate(credentials) ==
    /\ backend # JsNull
    /\ authCalls < MaxAuth
    /\ authCalls' = authCalls + 1
    /\ pendingAuth' = pendingAuth \cup
                        { [ id |-> authCalls + 1, credentials |-> credentials ] }
    /\ lastResult' = [ op |-> "authenticate", args |-> [ credentials |-> credentials ],
                       outcome |-> "pending", value |-> JsUndefined ]
    /\ UNCHANGED << backend, constructed, localStorage, user, implUser,
                    retrieveCalls, setUserCalls >>
    /\ UNCHANGED << slugVars, date, contentVars >>

\* the then callback with the store left out
AuthenticateResolvesUnstored(call, session) ==
    /\ call \in pendingAuth
    /\ pendingAuth' = pendingAuth \ { call }
    /\ lastResult' = [ op |-> "authenticate", args |-> [ credentials |-> call.credentials ],
                       outcome |-> "resolved", value |-> session ]
    /\ UNCHANGED << backend, constructed, localStorage, user, implUser,
                    retrieveCalls, setUserCalls, authCalls >>
    /\ UNCHANGED << slugVars, date, contentVars >>

\* the implementation accepts: the then callback of authenticate runs
AuthenticateResolves(call, session) ==
    /\ call \in pendingAuth
    /\ pendingAuth' = pendingAuth \ { call }
    /\ localStorage' = IF backend.authStore # "null"
                       THEN store(session) ELSE localStorage
    /\ lastResult' = [ op |-> "authenticate", args |-> [ credentials |-> call.credentials ],
                       outcome |-> "resolved", value |-> session ]
    /\ UNCHANGED << backend, constructed, user, implUser, retrieveCalls,
                    setUserCalls, authCalls >>
    /\ UNCHANGED << slugVars, date, contentVars >>

\* the implementation rejects: the then callback is skipped
AuthenticateRejects(call) ==
    /\ call \in pendingAuth
    /\ pendingAuth' = pendingAuth \ { call }
    /\ lastResult' = [ op |-> "authenticate", args |-> [ credentials |-> call.credentials ],
                       outcome |-> "rejected", value |-> JsError("AuthError") ]
    /\ UNCHANGED << backend, constructed, localStorage, user, implUser,
                    retrieveCalls, setUserCalls, authCalls >>
    /\ UNCHANGED << slugVars, date, contentVars >>

StoredSessions == { JsNull } \cup { store(SessionObject(s)) : s \in Sessions }

Init ==
    /\ template = TSlug
    /\ entryData = EmptyMap
    /\ date = Today
    /\ formatted = NotCalled
    /\ lastResult = NoResult
    /\ backend = JsNull
    /\ constructed = 0
    /\ localStorage \in StoredSessions
    /\ user = JsUndefined
    /\ implUser = JsUndefined
    /\ retrieveCalls = 0
    /\ setUserCalls = 0
    /\ authCalls = 0
    /\ pendingAuth = {}
    /\ IdleContent

Next ==
    \/ \E config \in Configs : ResolveBackend(config)
    \/ \E config \in Configs : CurrentBackend(config)
    \/ CurrentUser
    \/ \E credentials \in Credentials : Authenticate(credentials)
    \/ \E call \in pendingAuth, s \in Sessions :
          AuthenticateResolves(call, SessionObject(s))
    \/ \E call \in pendingAuth : AuthenticateRejects(call)

Spec == Init /\ [][Next]_vars

----------------------------------------------------------------------------
\* Claims about the session and the resolver.

\* C3 as the documentation states it: once a currentUser() call has loaded
\* a session from the Auth Store (and so handed it to setUser), a later
\* currentUser() call returns that session without another retrieve() and
\* without another setUser().
C3_CurrentUserIdempotent ==
    [][ (CurrentUser /\ setUserCalls > 0) =>
           /\ retrieveCalls' = retrieveCalls
           /\ setUserCalls' = setUserCalls
           /\ lastResult'.value = implUser ]_vars

\* C5 as stated: resolveBackend throws exactly for the names outside
\* {test-repo, github, netlify-git} and for a missing name, and every
\* currentBackend call with a configuration that has no backend key returns
\* nothing, raises nothing and constructs and caches nothing.
C5_SelectionAsStated ==
    [][ /\ \A config \in Configs :
              ResolveBackend(config) =>
                 (lastResult'.outcome = "threw" <=> config.name \notin KnownNames)
        /\ \A config \in Configs :
              (CurrentBackend(config) /\ backend = JsNull /\ config.hasBackend) =>
                 (lastResult'.outcome = "threw" <=> config.name \notin KnownNames)
        /\ \A config \in Configs :
              (CurrentBackend(config) /\ ~config.hasBackend) =>
                 /\ lastResult' = Returned("currentBackend", config, JsUndefined)
                 /\ backend' = backend
                 /\ constructed' = constructed ]_vars

\* C5 amended: resolveBackend throws exactly for the names outside
\* {test-repo, github, netlify-git} and for a missing name; a currentBackend
\* call with a configuration that has no backend key never raises, constructs
\* or caches, and it returns nothing as long as no Facade is cached (once one
\* is cached it returns that Facade).
C5_Selection ==
    [][ /\ \A config \in Configs :
              ResolveBackend(config) =>
                 (lastResult'.outcome = "threw" <=> config.name \notin KnownNames)
        /\ \A config \in Configs :
              (CurrentBackend(config) /\ backend = JsNull /\ config.hasBackend) =>
                 (lastResult'.outcome = "threw" <=> config.name \notin KnownNames)
        /\ \A config \in Configs :
              (CurrentBackend(config) /\ ~config.hasBackend) =>
                 /\ lastResult' = Returned("currentBackend", config,
                                           IF backend = JsNull
                                           THEN JsUndefined ELSE backend)
                 /\ backend' = backend
                 /\ constructed' = constructed ]_vars

\* currentBackend was given a configuration with no backend key while no
\* Facade was cached, and returned nothing
C5_Witness ==
    /\ lastResult = Returned("currentBackend", NoBackendKey, JsUndefined)
    /\ backend = JsNull
    /\ constructed = 0

\* C7: a step in which the implementation accepts the credentials writes the
\* session it returned to the Auth Store (stringified, and parsing back to
\* that session) and hands it to the caller; a step in which it rejects them
\* hands the failure to the caller and leaves the Auth Store as it was; no
\* other step writes the Auth Store.
C7_AuthenticateStores ==
    [][ /\ \A call \in pendingAuth, s \in Sessions :
              AuthenticateResolves(call, SessionObject(s)) =>
                 /\ localStorage' = [ kind |-> "item",
                                      text |-> JSONstringify(SessionObject(s)) ]
                 /\ retrieve(localStorage') = SessionObject(s)
                 /\ lastResult'.outcome = "resolved"
                 /\ lastResult'.value = SessionObject(s)
        /\ \A call \in pendingAuth :
              AuthenticateRejects(call) =>
                 /\ localStorage' = localStorage
                 /\ lastResult'.outcome = "rejected"
        /\ localStorage' # localStorage =>
              \E call \in pendingAuth, s \in Sessions :
                 AuthenticateResolves(call, SessionObject(s)) ]_vars

\* an authenticate call was accepted after another was rejected, and the
\* Auth Store holds the accepted call's session
C7_Witness ==
    /\ lastResult.op = "authenticate"
    /\ lastResult.outcome = "resolved"
    /\ authCalls = 2
    /\ pendingAuth = {}
    /\ localStorage = store(lastResult.value)
    /\ lastResult.value.pairs = << << "token", "t1" >>, << "login", "ann" >> >>

\* C10: a currentBackend call returns the cached Facade untouched when there
\* is one, whatever the configuration; with none cached it constructs, caches
\* and returns a Facade for a configuration naming a known backend and caches
\* nothing otherwise; and nothing else ever changes the cached Facade.
C10_LazySingleton ==
    [][ /\ \A config \in Configs :
              CurrentBackend(config) =>
                 IF backend # JsNull
                 THEN /\ backend' = backend
                      /\ constructed' = constructed
                      /\ lastResult' = Returned("currentBackend", config, backend)
                 ELSE IF config.hasBackend /\ config.name \in KnownNames
                 THEN /\ backend'.kind = "Backend"
                      /\ backend'.implementation = Implementation(config.name)
                      /\ backend'.id = constructed'
                      /\ constructed' = constructed + 1
                      /\ lastResult' = Returned("currentBackend", config, backend')
                 ELSE /\ backend' = JsNull
                      /\ constructed' = constructed
        /\ backend # JsNull => backend' = backend ]_vars

\* with the GitHub Facade cached after a failed first attempt, a call naming
\* an unknown backend got the cached Facade
C10_Witness ==
    /\ backend # JsNull
    /\ backend.implementation = "GitHubBackend"
    /\ lastResult = Returned("currentBackend",
                             [ hasBackend |-> TRUE, name |-> "gitlab" ], backend)

----------------------------------------------------------------------------
\* The collaborators of the listing and persist paths: the Collection
\* Model, the Entry Factory and the Format Resolver.

\* null where a string is expected
NullString == << "null" >>

FolderPosts == << "p" >>
ExtMd == << ".", "m", "d" >>

\* collection.get('slug') is the slug template; format is the declared
\* format, "" when the collection declares none
Collections ==
    { [ name |-> "posts", label |-> "Post", create |-> TRUE, slug |-> TDated,
        folder |-> FolderPosts, format |-> "yaml-frontmatter" ],
      [ name |-> "pages", label |-> "Page", create |-> FALSE, slug |-> TSlug,
        folder |-> FolderPosts, format |-> "" ] }

allowNewEntries(collection) == collection.create

listMethod(collection) == "entriesByFolder"

entryPath(collection, slug) == collection.folder \o << "/" >> \o slug \o ExtMd

\* the last index of character c in s, 0 when there is none
LastIndexOf(s, c) ==
    LET at == { i \in DOMAIN s : s[i] = c }
    IN  IF at = {} THEN 0 ELSE CHOOSE i \in at : \A j \in at : j <= i

\* the file name of the path, its extension dropped
entrySlug(collection, path) ==
    LET file == SubSeq(path, LastIndexOf(path, "/") + 1, Len(path))
        dot == LastIndexOf(file, ".")
    IN  IF dot = 0 THEN file ELSE SubSeq(file, 1, dot - 1)

\* createEntry(collection, slug, path, options)
createEntry(collection, slug, path, raw, label, metaData) ==
    [ kind |-> "Entry", collection |-> collection, slug |-> slug, path |-> path,
      partial |-> FALSE, raw |-> raw, data |-> [ kind |-> "object" ],
      label |-> label, metaData |-> metaData ]

YamlFrontmatter == [ kind |-> "format", name |-> "yaml-frontmatter" ]

\* resolveFormat(collectionOrEntity, entry): the declared format, else the
\* file extension decides
resolveFormat(collectionOrEntity, path) ==
    IF collectionOrEntity.format # "" THEN YamlFrontmatter
    ELSE IF path # Undefined /\ Len(path) >= 3
            /\ SubSeq(path, Len(path) - 2, Len(path)) = ExtMd
    THEN YamlFrontmatter
    ELSE JsUndefined

\* the entity 'editorialWorkflow' declares no format
EditorialWorkflow == [ name |-> "editorialWorkflow", format |-> "" ]

\* format.fromFile(raw) of a text: the parsed data, or a parse error
fromFile(raw) ==
    IF "?" \in Range(raw)
    THEN [ threw |-> TRUE, value |-> JsError("ParseError") ]
    ELSE [ threw |-> FALSE, value |-> [ kind |-> "data", of |-> raw ] ]

\* format.fromFile(entry) of an Entry object instead of a text: the parser
\* is outside its contract, and throws or gives some data (objectParse)
fromFileOfObject(objectParse) ==
    IF objectParse = "throws"
    THEN [ threw |-> TRUE, value |-> JsError("TypeError") ]
    ELSE [ threw |-> FALSE, value |-> [ kind |-> "data", of |-> << >> ] ]

ObjectParses == { "throws", "gives data" }

\* format.toFile(entry)
toFile(entry) == [ kind |-> "raw", of |-> entry ]

----------------------------------------------------------------------------
\* Backend: the listings.

\* entryWithFormat(collectionOrEntity)(entry)
entryWithFormat(collectionOrEntity, entry, objectParse) ==
    LET format == resolveFormat(collectionOrEntity, entry.path)
    IN  IF entry.raw # << >>
        THEN IF format = JsUndefined
             THEN [ threw |-> FALSE,
                    value |-> [ entry EXCEPT !.data = JsUndefined ] ]
             ELSE IF fromFile(entry.raw).threw
             THEN fromFile(entry.raw)
             ELSE [ threw |-> FALSE,
                    value |-> [ entry EXCEPT !.data = fromFile(entry.raw).value ] ]
        ELSE IF format = JsUndefined
        THEN [ threw |-> TRUE, value |-> JsError("TypeError") ]
        ELSE fromFileOfObject(objectParse)

\* what a promise chain over the mapped entries settles to
Settle(op, args, mapped) ==
    IF \E i \in DOMAIN mapped : mapped[i].threw
    THEN LET first == CHOOSE i \in DOMAIN mapped :
                         /\ mapped[i].threw
                         /\ \A j \in DOMAIN mapped : mapped[j].threw => i <= j
         IN  [ op |-> op, args |-> args, outcome |-> "rejected",
               value |-> mapped[first].value ]
    ELSE [ op |-> op, args |-> args, outcome |-> "resolved",
           value |-> [ kind |-> "listing",
                       entries |-> [ i \in DOMAIN mapped |-> mapped[i].value ] ] ]

PathA == << "p", "/", "a", ".", "m", "d" >>
PathB == << "q", "/", "b", ".", "t", "x", "t" >>
RawTexts == { << >>, << "o", "k" >>, << "?" >> }

\* what a listing verb answers with: {file: {path, label}, data}
LoadedEntries ==
    { [ file |-> [ path |-> p, label |-> Undefined ], data |-> r ] :
        p \in { PathA, PathB }, r \in RawTexts }

\* what unpublishedEntries answers with: {slug, file: {path}, data, metaData}
UnpublishedLoaded ==
    { [ slug |-> entrySlug(EditorialWorkflow, p), file |-> [ path |-> p ],
        data |-> r, metaData |-> [ kind |-> "object", status |-> "draft" ] ] :
        p \in { PathA, PathB }, r \in RawTexts }

RECURSIVE SeqsUpTo(_, _)
SeqsUpTo(items, n) ==
    IF n = 0 THEN { << >> }
    ELSE LET shorter == SeqsUpTo(items, n - 1)
         IN  shorter \cup { Append(s, x) : s \in shorter, x \in items }

\* listEntries(collection), the implementation answering loadedEntries
ListEntries(collection, loadedEntries, objectParse) ==
    /\ backend # JsNull
    /\ LET entries ==
              [ i \in DOMAIN loadedEntries |->
                  createEntry(collection.name,
                              entrySlug(collection, loadedEntries[i].file.path),
                              loadedEntries[i].file.path,
                              loadedEntries[i].data,
                              IF loadedEntries[i].file.label = Undefined
                              THEN NullString ELSE loadedEntries[i].file.label,
                              JsNull) ]
           mapped ==
              [ i \in DOMAIN entries |->
                  entryWithFormat(collection, entries[i], objectParse) ]
       IN  lastResult' =
              Settle("listEntries",
                     [ collection |-> collection.name, verb |-> listMethod(collection),
                       loadedEntries |-> loadedEntries ],
                     mapped)
    /\ UNCHANGED << slugVars, date, sessionVars, contentVars >>

\* unpublishedEntries(page, perPage), the implementation answering loadedEntries
UnpublishedEntries(loadedEntries, objectParse) ==
    /\ backend # JsNull
    /\ LET entries ==
              [ i \in DOMAIN loadedEntries |->
                  createEntry("draft", loadedEntries[i].slug,
                              loadedEntries[i].file.path, loadedEntries[i].data,
                              NullString, loadedEntries[i].metaData) ]
           filteredEntries == SelectSeq(entries, LAMBDA entry : entry # JsNull)
           mapped ==
              [ i \in DOMAIN filteredEntries |->
                  entryWithFormat(EditorialWorkflow, filteredEntries[i], objectParse) ]
       IN  lastResult' =
              Settle("unpublishedEntries", [ loadedEntries |-> loadedEntries ],
                     mapped)
    /\ UNCHANGED << slugVars, date, sessionVars, contentVars >>

\* the singleton constructed, nothing called yet
FacadeReady ==
    /\ template = TSlug
    /\ entryData = EmptyMap
    /\ formatted = NotCalled
    /\ lastResult = NoResult
    /\ backend = Facade(1, "TestRepoBackend")
    /\ constructed = 1
    /\ localStorage = JsNull
    /\ user = JsUndefined
    /\ implUser = JsUndefined
    /\ retrieveCalls = 0
    /\ setUserCalls = 0
    /\ authCalls = 0
    /\ pendingAuth = {}
    /\ IdleContent

InitListing == FacadeReady /\ date = Today

NextListing ==
    \/ \E collection \in Collections,
          loadedEntries \in SeqsUpTo(LoadedEntries, MaxItems),
          objectParse \in ObjectParses :
          ListEntries(collection, loadedEntries, objectParse)
    \/ \E loadedEntries \in SeqsUpTo(UnpublishedLoaded, MaxItems),
          objectParse \in ObjectParses :
          UnpublishedEntries(loadedEntries, objectParse)

SpecListing == InitListing /\ [][NextListing]_vars

----------------------------------------------------------------------------
\* Claims about the listings.

\* whether normalizing the i-th item of an unpublishedEntries answer fails
NormalizationFails(item, objectParse) ==
    entryWithFormat(EditorialWorkflow,
                    createEntry("draft", item.slug, item.file.path, item.data,
                                NullString, item.metaData),
                    objectParse).threw

\* C4 as stated, for the answers whose items all carry a raw text:
\* unpublishedEntries resolves with the entries of exactly the items whose
\* normalization succeeds, in the backend's order, and an item whose
\* normalization fails never makes the listing fail.
C4_DropsOnlyFailedItems ==
    [][ \A loadedEntries \in SeqsUpTo(UnpublishedLoaded, MaxItems),
           objectParse \in ObjectParses :
           ( /\ UnpublishedEntries(loadedEntries, objectParse)
             /\ \A i \in DOMAIN loadedEntries : loadedEntries[i].data # << >> ) =>
              LET good == SelectSeq(loadedEntries,
                                    LAMBDA item : ~NormalizationFails(item, objectParse))
              IN  /\ lastResult'.outcome = "resolved"
                  /\ Len(lastResult'.value.entries) = Len(good)
                  /\ \A i \in DOMAIN good :
                        lastResult'.value.entries[i].slug = good[i].slug ]_vars

\* C6 as stated: when a format resolves for every item (and no raw text is
\* malformed), listEntries resolves with one Entry per item, in the
\* backend's order, each with its item's path and raw text, items with an
\* empty raw text included.
C6_OneEntryPerItem ==
    [][ \A collection \in Collections,
           loadedEntries \in SeqsUpTo(LoadedEntries, MaxItems),
           objectParse \in ObjectParses :
           ( /\ ListEntries(collection, loadedEntries, objectParse)
             /\ \A i \in DOMAIN loadedEntries :
                   /\ resolveFormat(collection, loadedEntries[i].file.path)
                         # JsUndefined
                   /\ ~fromFile(loadedEntries[i].data).threw ) =>
              /\ lastResult'.outcome = "resolved"
              /\ Len(lastResult'.value.entries) = Len(loadedEntries)
              /\ \A i \in DOMAIN loadedEntries :
                    /\ lastResult'.value.entries[i].kind = "Entry"
                    /\ lastResult'.value.entries[i].path = loadedEntries[i].file.path
                    /\ lastResult'.value.entries[i].raw = loadedEntries[i].data ]_vars

----------------------------------------------------------------------------
\* Backend: persistEntry.

TitleField == << "B", "!", "!" >>

\* entry drafts: a stored entry whose title was edited, a new entry with a
\* title, a stored entry with a path field and no title, a new entry with
\* no title
Drafts ==
    { [ newRecord |-> FALSE, path |-> PathA, slug |-> << "a" >>,
        data |-> STitle :> TitleField ],
      [ newRecord |-> TRUE, path |-> Undefined, slug |-> Undefined,
        data |-> STitle :> TitleField ],
      [ newRecord |-> FALSE, path |-> PathA, slug |-> << "a" >>,
        data |-> SPath :> PathField ],
      [ newRecord |-> TRUE, path |-> Undefined, slug |-> Undefined,
        data |-> EmptyMap ] }

\* the options argument: {} or {unpublished: true}
PersistOptions == { [ unpublished |-> FALSE ], [ unpublished |-> TRUE ] }

\* config.get('publish_mode')
PublishMode == "editorial_workflow"

\* entryToRaw(collection, entry)
entryToRaw(collection, entry) ==
    IF resolveFormat(collection, MapGet(entry, SPath, Undefined)) = JsUndefined
    THEN JsUndefined
    ELSE toFile(entry)

\* the entry object of an existing draft with path and slug computed anew
EntryObjRecomputed(collection, entryDraft, d) ==
    LET slug == slugFormatter(collection.slug, entryDraft.data, d).value
        path == entryPath(collection, slug)
    IN  [ path |-> path, slug |-> slug,
          raw |-> entryToRaw(collection, entryDraft.data @@ (SPath :> path)) ]

\* the else branch: the entry object of a draft that is no new record
EntryObjExisting(collection, entryDraft, d) ==
    LET path == entryDraft.path
    IN  [ path |-> path, slug |-> entryDraft.slug,
          raw |-> entryToRaw(collection, entryDraft.data @@ (SPath :> path)) ]

\* the then branch, past the policy check: the entry object of a new record
EntryObjNew(collection, entryDraft, d) ==
    LET slug == slugFormatter(collection.slug, entryDraft.data, d).value
        path == entryPath(collection, slug)
    IN  [ path |-> path, slug |-> slug,
          raw |-> entryToRaw(collection, entryDraft.data @@ (SPath :> path)) ]

\* the options bundle handed to the implementation
PersistMeta(collection, entryDraft, options) ==
    [ newEntry |-> entryDraft.newRecord,
      parsedData |->
         [ title |-> MapGet(entryDraft.data, STitle,
                            << "N", "o", " ", "T", "i", "t", "l", "e" >>),
           description |-> MapGet(entryDraft.data,
                                  << "d", "e", "s", "c", "r", "i", "p", "t", "i", "o", "n" >>,
                                  << "N", "o", " ", "D", "e", "s", "c", "r", "i", "p", "t", "i", "o", "n" >>) ],
      commitMessage |->
         [ verb |-> IF entryDraft.newRecord THEN "Created " ELSE "Updated ",
           label |-> collection.label,
           title |-> MapGet(entryDraft.data, STitle, SUndefined) ],
      collectionName |-> collection.name,
      mode |-> PublishMode,
      unpublished |-> options.unpublished ]

PersistArgs(collection, entryDraft, options) ==
    [ collection |-> collection.name, entryDraft |-> entryDraft,
      options |-> options ]

\* whether persistEntry throws before it reaches the implementation
PolicyRefuses(collection, entryDraft) ==
    entryDraft.newRecord /\ ~allowNewEntries(collection)

\* the call of implementation.persistEntry that ends persistEntry
InvokePersist(collection, entryDraft, options) ==
    /\ persistCalls' = persistCalls + 1
    /\ outstanding' = outstanding \cup
          { [ id |-> persistCalls + 1,
              entryObj |-> IF entryDraft.newRecord
                           THEN EntryObjNew(collection, entryDraft, date)
                           ELSE EntryObjExisting(collection, entryDraft, date),
              meta |-> PersistMeta(collection, entryDraft, options) ] }
    /\ lastResult' = [ op |-> "persistEntry",
                       args |-> PersistArgs(collection, entryDraft, options),
                       outcome |-> "pending",
                       value |-> [ kind |-> "promise", id |-> persistCalls + 1 ] ]
    /\ UNCHANGED settled

\* whether the slug formatter throws on the draft's field data
SlugThrows(collection, entryDraft) ==
    entryDraft.newRecord
    /\ slugFormatter(collection.slug, entryDraft.data, date).threw

\* persistEntry with new records let through whatever the collection allows
PersistEntryUnchecked(collection, entryDraft, options) ==
    /\ backend # JsNull
    /\ persistCalls < MaxPersist
    /\ IF SlugThrows(collection, entryDraft)
       THEN /\ lastResult' = Threw("persistEntry",
                                   PersistArgs(collection, entryDraft, options),
                                   "TypeError")
            /\ UNCHANGED contentVars
       ELSE InvokePersist(collection, entryDraft, options)
    /\ UNCHANGED << slugVars, date, sessionVars >>

\* persistEntry behind a lock per path: no call for a stored entry while one
\* for the same path is outstanding
PersistEntryLocked(collection, entryDraft, options) ==
    /\ backend # JsNull
    /\ persistCalls < MaxPersist
    /\ \A call \in outstanding :
          entryDraft.newRecord \/ call.entryObj.path # entryDraft.path
    /\ IF PolicyRefuses(collection, entryDraft)
       THEN /\ lastResult' =
                  Threw("persistEntry", PersistArgs(collection, entryDraft, options),
                        "Not allowed to create new entries in this collection")
            /\ UNCHANGED contentVars
       ELSE IF SlugThrows(collection, entryDraft)
       THEN /\ lastResult' = Threw("persistEntry",
                                   PersistArgs(collection, entryDraft, options),
                                   "TypeError")
            /\ UNCHANGED contentVars
       ELSE InvokePersist(collection, entryDraft, options)
    /\ UNCHANGED << slugVars, date, sessionVars >>

\* persistEntry(config, collection, entryDraft, MediaFiles, options); the
\* media files pass through to the implementation untouched
PersistEntry(collection, entryDraft, options) ==
    /\ backend # JsNull
    /\ persistCalls < MaxPersist
    /\ IF PolicyRefuses(collection, entryDraft)
       THEN /\ lastResult' =
                  Threw("persistEntry", PersistArgs(collection, entryDraft, options),
                        "Not allowed to create new entries in this collection")
            /\ UNCHANGED contentVars
       ELSE IF SlugThrows(collection, entryDraft)
       THEN /\ lastResult' = Threw("persistEntry",
                                   PersistArgs(collection, entryDraft, options),
                                   "TypeError")
            /\ UNCHANGED contentVars
       ELSE InvokePersist(collection, entryDraft, options)
    /\ UNCHANGED << slugVars, date, sessionVars >>

\* persistUnpublishedEntry(config, collection, entryDraft, MediaFiles)
PersistUnpublishedEntry(collection, entryDraft) ==
    PersistEntry(collection, entryDraft, [ unpublished |-> TRUE ])

\* the implementation settles an outstanding persistEntry promise
PersistSettles(call, outcome) ==
    /\ call \in outstanding
    /\ outstanding' = outstanding \ { call }
    /\ settled' = Append(settled, [ id |-> call.id, path |-> call.entryObj.path,
                                    outcome |-> outcome ])
    /\ lastResult' = [ op |-> "persistEntry", args |-> [ id |-> call.id ],
                       outcome |-> outcome,
                       value |-> IF outcome = "rejected"
                                 THEN JsError("PersistError") ELSE JsUndefined ]
    /\ UNCHANGED persistCalls
    /\ UNCHANGED << slugVars, date, sessionVars >>

InitPersist == FacadeReady /\ date \in Dates

NextPersist ==
    \/ \E collection \in Collections, entryDraft \in Drafts :
          PersistEntry(collection, entryDraft, [ unpublished |-> FALSE ])
    \/ \E collection \in Collections, entryDraft \in Drafts :
          PersistUnpublishedEntry(collection, entryDraft)
    \/ \E call \in outstanding, outcome \in { "resolved", "rejected" } :
          PersistSettles(call, outcome)

SpecPersist == InitPersist /\ [][NextPersist]_vars

----------------------------------------------------------------------------
\* Claims about persistEntry.

\* C1: a persistEntry call with a new record for a collection that does not
\* allow new entries throws, and the implementation's persistEntry is not
\* invoked: the number of its invocations and the outstanding calls stay.
C1_NewEntryPolicy ==
    [][ \A collection \in Collections, entryDraft \in Drafts,
           options \in PersistOptions :
           ( /\ ~allowNewEntries(collection)
             /\ entryDraft.newRecord
             /\ PersistEntry(collection, entryDraft, options) ) =>
              /\ lastResult'.outcome = "threw"
              /\ lastResult'.value.kind = "Error"
              /\ persistCalls' = persistCalls
              /\ outstanding' = outstanding
              /\ settled' = settled ]_vars

\* with a call outstanding, a new record for the collection that allows none
\* was refused
C1_Witness ==
    /\ lastResult.op = "persistEntry"
    /\ lastResult.outcome = "threw"
    /\ lastResult.args.collection = "pages"
    /\ lastResult.args.entryDraft.newRecord
    /\ lastResult.args.entryDraft.data # EmptyMap
    /\ persistCalls = 1
    /\ Cardinality(outstanding) = 1

\* C2: a persistEntry call with a draft that is no new record invokes the
\* implementation with an entry object whose path and slug are the draft's
\* own, whatever its field data.
C2_ExistingKeepsPathAndSlug ==
    [][ \A collection \in Collections, entryDraft \in Drafts,
           options \in PersistOptions :
           ( /\ ~entryDraft.newRecord
             /\ PersistEntry(collection, entryDraft, options) ) =>
              /\ persistCalls' = persistCalls + 1
              /\ \E call \in outstanding' \ outstanding :
                    /\ call.id = persistCalls'
                    /\ call.entryObj.path = entryDraft.path
                    /\ call.entryObj.slug = entryDraft.slug
                    /\ outstanding' = outstanding \cup { call } ]_vars

\* a stored entry retitled "B!!" (the formatter would make its slug "b-")
\* went to the implementation as p/a.md with slug "a"
C2_Witness ==
    \E call \in outstanding :
       /\ ~call.meta.newEntry
       /\ call.meta.parsedData.title = TitleField
       /\ call.entryObj.path = PathA
       /\ call.entryObj.slug = << "a" >>
       /\ Sanitize(call.meta.parsedData.title) = << "b", "-" >>

\* C9: while persist calls are outstanding, a further persistEntry call for
\* the path of any of them still goes straight to the implementation, next
\* to the outstanding ones; and the implementation may settle any
\* outstanding call next, whichever was issued first.
C9_NoSerialization ==
    \A call \in outstanding :
       /\ \A outcome \in { "resolved", "rejected" } :
             ENABLED PersistSettles(call, outcome)
       /\ persistCalls < MaxPersist =>
             \A collection \in Collections, entryDraft \in Drafts :
                (~entryDraft.newRecord /\ entryDraft.path = call.entryObj.path) =>
                   ENABLED ( /\ PersistEntry(collection, entryDraft,
                                             [ unpublished |-> FALSE ])
                             /\ call \in outstanding'
                             /\ Cardinality(outstanding') =
                                   Cardinality(outstanding) + 1 )

\* two calls for p/a.md were outstanding together and the implementation
\* settled the second before the first
C9_Witness ==
    /\ Len(settled) = 2
    /\ settled[1].id = 2
    /\ settled[2].id = 1
    /\ settled[1].path = PathA
    /\ settled[2].path = PathA

====
